---- MODULE Spec2Model ----
(***************************************************************************)
(* A model of two parts of the dify back end:                              *)
(*   - api/controllers/console/workspace/user_email_resources.py: the two  *)
(*     read-only endpoints EmailDatasetsApi and EmailAppsApi;              *)
(*   - api/libs/oauth.py: the OAuth adapters GitHubOAuth, GoogleOAuth and  *)
(*     AILabOAuth.                                                         *)
(* The database tables are variables named after the ORM models; they are  *)
(* chosen in Init and never written, as the endpoints only read.           *)
(***************************************************************************)
EXTENDS Integers, Sequences, FiniteSets, TLC

VARIABLES
    Account,            \* rows [id, email]
    TenantAccountJoin,  \* rows [account_id, tenant_id, current]
    Dataset,            \* rows [id, tenant_id, created_by, permission, created_at]
    DatasetPermission,  \* rows [dataset_id, account_id, has_permission]
    App,                \* rows [id, tenant_id, created_by, is_public, created_at]
    InstalledApp,       \* rows [tenant_id, app_id]
    args,               \* the parsed request of the last call, or None
    tenant_account,     \* the handler's local of the last call (logged at line 79/203)
    resp,               \* the response of the last call, or None
    walk,               \* a client's walk over the pages 1, 2, ... or None
    http,               \* what the OAuth provider answers: [token, user, emails]
    oauth               \* the last call on an OAuth adapter and its outcome, or None

tables == <<Account, TenantAccountJoin, Dataset, DatasetPermission, App, InstalledApp>>
vars == <<Account, TenantAccountJoin, Dataset, DatasetPermission, App, InstalledApp,
          args, tenant_account, resp, walk, http, oauth>>

\* Python's None.
None == [none |-> TRUE]

(***************************************************************************)
(* Bounds of the requests.                                                 *)
(***************************************************************************)
MaxPage == 3
MaxLimit == 2

\* reqparse type=int accepts any integer: zero and negative ones too.
Pages == 0..MaxPage
Limits == (0 - 1)..MaxLimit
Emails == {"e1", "e2", "e3"}

(***************************************************************************)
(* The ORM.                                                                *)
(***************************************************************************)

\* Query.first() without order_by: any one of the matching rows, or None.
First(rows) == IF rows = {} THEN {None} ELSE rows

\* order_by(created_at.desc()): every order of the rows the sort key allows.
\* Rows with equal created_at come in an order the database chooses per query.
RECURSIVE OrderByCreatedAtDesc(_)
OrderByCreatedAtDesc(rows) ==
    IF rows = {} THEN {<<>>}
    ELSE UNION {{<<r>> \o s : s \in OrderByCreatedAtDesc(rows \ {r})} :
                   r \in {x \in rows : \A y \in rows : x.created_at >= y.created_at}}

Min(a, b) == IF a < b THEN a ELSE b
Max(a, b) == IF a > b THEN a ELSE b

\* The rows offset+1 .. offset+limit of s (0 <= offset, 0 <= limit).
Slice(s, offset, limit) == SubSeq(s, offset + 1, Min(offset + limit, Len(s)))

DataError == [error |-> "DataError"]

\* query.order_by(created_at.desc()).offset(offset).limit(limit).all()
\* A negative OFFSET or LIMIT is rejected by PostgreSQL and MySQL; SQLite reads a
\* negative OFFSET as 0 and a negative LIMIT as no limit.
OffsetLimitAll(rows, offset, limit) ==
    IF offset >= 0 /\ limit >= 0
    THEN {[all |-> Slice(s, offset, limit)] : s \in OrderByCreatedAtDesc(rows)}
    ELSE {DataError} \cup
         {[all |-> Slice(s, Max(offset, 0), IF limit < 0 THEN Len(s) ELSE limit)] :
              s \in OrderByCreatedAtDesc(rows)}

(***************************************************************************)
(* user_email_resources.py                                                 *)
(***************************************************************************)

\* marshal_with(dataset_fields): tenant_id is not among the fields.
dataset_fields(d) ==
    [id |-> d.id, permission |-> d.permission, created_by |-> d.created_by,
     created_at |-> d.created_at]

\* marshal_with(app_fields): tenant_id is not among the fields.
app_fields(a) ==
    [id |-> a.id, is_public |-> a.is_public, created_by |-> a.created_by,
     created_at |-> a.created_at]

\* A faulty variant: page and limit of the parser's defaults instead of the request's.
EmptyPageDefaults(page, limit) ==
    [data |-> <<>>, has_more |-> FALSE, total |-> 0, page |-> 1, limit |-> 20]

\* The page returned for an unknown email and for an account without tenant.
EmptyPage(page, limit) ==
    [data |-> <<>>, has_more |-> FALSE, total |-> 0, page |-> page, limit |-> limit]

\* db.session.query(Account).filter(Account.email == email).first()
FindAccount(email) == First({a \in Account : a.email = email})

\* A faulty variant: the fallback query alone, the current flag ignored.
GetTenantAnyRow(account) ==
    First({j \in TenantAccountJoin : j.account_id = account.id})

\* The row with current == True, else any row of the account, else None.
GetTenant(account) ==
    LET current == {j \in TenantAccountJoin : j.account_id = account.id /\ j.current = TRUE}
    IN  IF current # {}
        THEN First(current)
        ELSE First({j \in TenantAccountJoin : j.account_id = account.id})

\* A faulty variant: the has_permission condition of the subquery dropped.
DatasetQueryAnyGrant(account, tenant_id) ==
    LET granted == {p.dataset_id : p \in {q \in DatasetPermission :
                                              q.account_id = account.id}}
    IN  {d \in Dataset :
            /\ d.tenant_id = tenant_id
            /\ \/ d.created_by = account.id
               \/ d.permission = "all_team_members"
               \/ (d.permission = "partial_members" /\ d.id \in granted)}

\* The filter of EmailDatasetsApi.get.
DatasetQuery(account, tenant_id) ==
    LET granted == {p.dataset_id : p \in {q \in DatasetPermission :
                                              /\ q.account_id = account.id
                                              /\ q.has_permission = TRUE}}
    IN  {d \in Dataset :
            /\ d.tenant_id = tenant_id
            /\ \/ d.created_by = account.id
               \/ d.permission = "all_team_members"
               \/ (d.permission = "partial_members" /\ d.id \in granted)}

\* A faulty variant: the installed apps never added to the filter.
AppQueryNoInstalled(account, tenant_id) ==
    {a \in App : a.tenant_id = tenant_id /\ (a.created_by = account.id \/ a.is_public = TRUE)}

\* The filter of EmailAppsApi.get.
AppQuery(account, tenant_id) ==
    LET base_query == {a \in App : a.tenant_id = tenant_id}
        installed_app_ids == {i.app_id : i \in {r \in InstalledApp : r.tenant_id = tenant_id}}
    IN  IF installed_app_ids # {}
        THEN {a \in base_query : \/ a.created_by = account.id
                                 \/ a.is_public = TRUE
                                 \/ a.id \in installed_app_ids}
        ELSE {a \in base_query : a.created_by = account.id \/ a.is_public = TRUE}

\* A faulty variant: has_more also on the page that ends exactly at the last record.
PageResponseOffByOne(rows, page, limit) ==
    LET offset == (page - 1) * limit
        total == Cardinality(rows)
    IN  {IF r = DataError THEN DataError
         ELSE [data |-> r.all, has_more |-> (offset + limit) <= total,
               total |-> total, page |-> page, limit |-> limit] :
            r \in OffsetLimitAll(rows, offset, limit)}

\* total = query.count(); the page of rows; the response before marshalling.
PageResponse(rows, page, limit) ==
    LET offset == (page - 1) * limit
        total == Cardinality(rows)
    IN  {IF r = DataError THEN DataError
         ELSE [data |-> r.all, has_more |-> (offset + limit) < total,
               total |-> total, page |-> page, limit |-> limit] :
            r \in OffsetLimitAll(rows, offset, limit)}

MarshalDatasets(r) ==
    IF r = DataError THEN r
    ELSE [r EXCEPT !.data = [i \in DOMAIN r.data |-> dataset_fields(r.data[i])]]

MarshalApps(r) ==
    IF r = DataError THEN r
    ELSE [r EXCEPT !.data = [i \in DOMAIN r.data |-> app_fields(r.data[i])]]

\* EmailDatasetsApi.get: its outcomes, each the local tenant_account and the response.
EmailDatasetsApi_get(email, page, limit) ==
    UNION {
        IF account = None
        THEN {[tenant_account |-> None, resp |-> EmptyPage(page, limit)]}
        ELSE UNION {
            IF t = None
            THEN {[tenant_account |-> None, resp |-> EmptyPage(page, limit)]}
            ELSE {[tenant_account |-> t, resp |-> MarshalDatasets(r)] :
                     r \in PageResponse(DatasetQuery(account, t.tenant_id), page, limit)}
            : t \in GetTenant(account)}
        : account \in FindAccount(email)}

\* EmailAppsApi.get: its outcomes, each the local tenant_account and the response.
EmailAppsApi_get(email, page, limit) ==
    UNION {
        IF account = None
        THEN {[tenant_account |-> None, resp |-> EmptyPage(page, limit)]}
        ELSE UNION {
            IF t = None
            THEN {[tenant_account |-> None, resp |-> EmptyPage(page, limit)]}
            ELSE {[tenant_account |-> t, resp |-> MarshalApps(r)] :
                     r \in PageResponse(AppQuery(account, t.tenant_id), page, limit)}
            : t \in GetTenant(account)}
        : account \in FindAccount(email)}

(***************************************************************************)
(* Actions: one GET on either endpoint.                                    *)
(***************************************************************************)
GetDatasets ==
    \E email \in Emails, page \in Pages, limit \in Limits :
        \E o \in EmailDatasetsApi_get(email, page, limit) :
            /\ args' = [endpoint |-> "datasets", email |-> email, page |-> page, limit |-> limit]
            /\ tenant_account' = o.tenant_account
            /\ resp' = o.resp
            /\ UNCHANGED <<tables, walk, http, oauth>>

GetApps ==
    \E email \in Emails, page \in Pages, limit \in Limits :
        \E o \in EmailAppsApi_get(email, page, limit) :
            /\ args' = [endpoint |-> "apps", email |-> email, page |-> page, limit |-> limit]
            /\ tenant_account' = o.tenant_account
            /\ resp' = o.resp
            /\ UNCHANGED <<tables, walk, http, oauth>>

Next == GetDatasets \/ GetApps

(***************************************************************************)
(* A client that reads the pages 1, 2, ..., ceil(total / limit) of one     *)
(* endpoint for one email and limit; walk keeps the pages it got.          *)
(***************************************************************************)
Ceil(total, limit) == (total + limit - 1) \div limit

Outcomes(endpoint, email, page, limit) ==
    IF endpoint = "datasets" THEN EmailDatasetsApi_get(email, page, limit)
    ELSE EmailAppsApi_get(email, page, limit)

WalkStart ==
    /\ walk = None
    /\ \E endpoint \in {"datasets", "apps"}, email \in Emails, limit \in 1..MaxLimit :
        \E o \in Outcomes(endpoint, email, 1, limit) :
            /\ args' = [endpoint |-> endpoint, email |-> email, page |-> 1, limit |-> limit]
            /\ tenant_account' = o.tenant_account
            /\ resp' = o.resp
            /\ walk' = [total |-> o.resp.total, pages |-> <<o.resp.data>>]
            /\ UNCHANGED <<tables, http, oauth>>

WalkNext ==
    /\ walk # None
    /\ Len(walk.pages) < Ceil(walk.total, args.limit)
    /\ \E o \in Outcomes(args.endpoint, args.email, Len(walk.pages) + 1, args.limit) :
            /\ args' = [args EXCEPT !.page = Len(walk.pages) + 1]
            /\ tenant_account' = o.tenant_account
            /\ resp' = o.resp
            /\ walk' = [walk EXCEPT !.pages = Append(@, o.resp.data)]
            /\ UNCHANGED <<tables, http, oauth>>

NextWalk == WalkStart \/ WalkNext

(***************************************************************************)
(* The tables.                                                             *)
(***************************************************************************)
Accounts == {[id |-> "a1", email |-> "e1"], [id |-> "a2", email |-> "e2"]}
AccountIds == {"a1", "a2"}
TenantIds == {"t1", "t2"}
Permissions == {"only_me", "all_team_members", "partial_members"}

NoCall ==
    /\ args = None
    /\ tenant_account = None
    /\ resp = None
    /\ walk = None
    /\ http = None
    /\ oauth = None

\* Tenant resolution: every set of join rows of a1 and a2 over two tenants;
\* one dataset and one app per tenant, visible to every member.
InitTenant ==
    /\ Account = Accounts
    /\ TenantAccountJoin \in SUBSET [account_id : AccountIds, tenant_id : TenantIds,
                                     current : BOOLEAN]
    /\ Dataset = {[id |-> "d1", tenant_id |-> "t1", created_by |-> "a1",
                   permission |-> "all_team_members", created_at |-> 1],
                  [id |-> "d2", tenant_id |-> "t2", created_by |-> "a2",
                   permission |-> "all_team_members", created_at |-> 2]}
    /\ DatasetPermission = {}
    /\ App = {[id |-> "p1", tenant_id |-> "t1", created_by |-> "a1",
               is_public |-> TRUE, created_at |-> 1],
              [id |-> "p2", tenant_id |-> "t2", created_by |-> "a2",
               is_public |-> TRUE, created_at |-> 2]}
    /\ InstalledApp = {}
    /\ NoCall

\* a1 works in t1 (its current tenant) and is a member of t2; a2 works in t1.
FixedJoins ==
    {[account_id |-> "a1", tenant_id |-> "t2", current |-> FALSE],
     [account_id |-> "a1", tenant_id |-> "t1", current |-> TRUE],
     [account_id |-> "a2", tenant_id |-> "t1", current |-> FALSE]}

\* Dataset visibility: d1 with every tenant, creator and permission, d2 a
\* member-shared dataset of t1, and every set of grants on them.
InitDatasets ==
    /\ Account = Accounts
    /\ TenantAccountJoin = FixedJoins
    /\ \E d1 \in [id : {"d1"}, tenant_id : TenantIds, created_by : AccountIds,
                  permission : Permissions, created_at : {1}] :
        Dataset = {d1, [id |-> "d2", tenant_id |-> "t1", created_by |-> "a2",
                        permission |-> "partial_members", created_at |-> 2]}
    /\ DatasetPermission \in SUBSET
           ([dataset_id : {"d1"}, account_id : AccountIds, has_permission : BOOLEAN]
            \cup {[dataset_id |-> "d2", account_id |-> "a1", has_permission |-> TRUE]})
    /\ App = {}
    /\ InstalledApp = {}
    /\ NoCall

\* App visibility: p1 with every tenant, creator and public flag, p2 a private
\* app of a2 in t1, and every set of installations.
InitApps ==
    /\ Account = Accounts
    /\ TenantAccountJoin = FixedJoins
    /\ Dataset = {}
    /\ DatasetPermission = {}
    /\ \E p1 \in [id : {"p1"}, tenant_id : TenantIds, created_by : AccountIds,
                  is_public : BOOLEAN, created_at : {1}] :
        App = {p1, [id |-> "p2", tenant_id |-> "t1", created_by |-> "a2",
                    is_public |-> FALSE, created_at |-> 2]}
    /\ InstalledApp \in SUBSET [tenant_id : TenantIds, app_id : {"p1", "p2"}]
    /\ NoCall

\* Pagination: up to four visible records of t1, created at time 1 or 2.
RecordIds == {"r1", "r2", "r3", "r4"}

InitPaging ==
    /\ Account = Accounts
    /\ TenantAccountJoin = FixedJoins
    /\ \E ids \in SUBSET RecordIds : \E at \in [ids -> {1, 2}] :
        /\ Dataset = {[id |-> i, tenant_id |-> "t1", created_by |-> "a2",
                       permission |-> "all_team_members", created_at |-> at[i]] : i \in ids}
        /\ App = {[id |-> i, tenant_id |-> "t1", created_by |-> "a2",
                   is_public |-> TRUE, created_at |-> at[i]] : i \in ids}
    /\ DatasetPermission = {}
    /\ InstalledApp = {}
    /\ NoCall

SpecTenant == InitTenant /\ [][Next]_vars
SpecDatasets == InitDatasets /\ [][Next]_vars
SpecApps == InitApps /\ [][Next]_vars
SpecPaging == InitPaging /\ [][Next]_vars
SpecWalk == InitPaging /\ [][NextWalk]_vars

(***************************************************************************)
(* oauth.py                                                                *)
(*                                                                         *)
(* JSON and Python values carry their type in the field t.  A dict is a    *)
(* function on Keys that maps the keys it does not hold to Absent.         *)
(***************************************************************************)
Absent == [t |-> "absent"]
JNull == [t |-> "null"]
JStr(s) == [t |-> "str", s |-> s]
JInt(n) == [t |-> "int", n |-> n]
JBool(b) == [t |-> "bool", b |-> b]
JList(l) == [t |-> "list", l |-> l]
JObj(d) == [t |-> "dict", d |-> d]
\* A body that is not JSON: response.json() raises on it.
NotJson == [t |-> "notjson"]

Keys == {"access_token", "data", "id", "login", "name", "email", "primary", "sub",
         "userId", "username", "displayName", "message"}

\* The dict with the items of the record f.
Dict(f) == [k \in Keys |-> IF k \in DOMAIN f THEN f[k] ELSE Absent]
EmptyDict == [k \in Keys |-> Absent]

\* key in d; d.get(key); d.get(key, default)
Has(d, k) == d[k] # Absent
Get(d, k) == IF Has(d, k) THEN d[k] ELSE JNull
GetOr(d, k, default) == IF Has(d, k) THEN d[k] ELSE default

\* bool(v)
Truthy(v) ==
    CASE v.t = "null" -> FALSE
      [] v.t = "str" -> v.s # ""
      [] v.t = "int" -> v.n # 0
      [] v.t = "bool" -> v.b
      [] v.t = "list" -> v.l # <<>>
      [] v.t = "dict" -> \E k \in Keys : Has(v.d, k)

\* str(v), and v in an f-string
PyStr(v) ==
    CASE v.t = "str" -> v.s
      [] v.t = "int" -> ToString(v.n)
      [] v.t = "null" -> "None"
      [] v.t = "bool" -> IF v.b THEN "True" ELSE "False"

Return(v) == [ok |-> TRUE, value |-> v]
Raise(e) == [ok |-> FALSE, exc |-> e]

\* response.raise_for_status(): an HTTPError for 4xx and 5xx.
RaisesForStatus(response) == 400 <= response.status_code /\ response.status_code < 600

\* A faulty variant: the token returned without the check for a missing one.
GetAccessTokenUnchecked(response) ==
    IF response.json = NotJson THEN Raise("JSONDecodeError")
    ELSE IF response.json.t # "dict" THEN Raise("AttributeError")
    ELSE Return(Get(response.json.d, "access_token"))

\* GitHubOAuth.get_access_token, given the token endpoint's response.
GitHubOAuth_get_access_token(response) ==
    IF response.json = NotJson THEN Raise("JSONDecodeError")
    ELSE IF response.json.t # "dict" THEN Raise("AttributeError")
    ELSE LET access_token == Get(response.json.d, "access_token")
         IN  IF ~Truthy(access_token) THEN Raise("ValueError")
             ELSE Return(access_token)

\* GoogleOAuth.get_access_token, given the token endpoint's response.
GoogleOAuth_get_access_token(response) ==
    IF response.json = NotJson THEN Raise("JSONDecodeError")
    ELSE IF response.json.t # "dict" THEN Raise("AttributeError")
    ELSE LET access_token == Get(response.json.d, "access_token")
         IN  IF ~Truthy(access_token) THEN Raise("ValueError")
             ELSE Return(access_token)

\* A faulty variant: the flat shape read first, the wrapped one only without a flat token.
AILabGetAccessTokenFlatFirst(response) ==
    IF response.json = NotJson THEN Raise("JSONDecodeError")
    ELSE IF response.json.t # "dict" THEN Raise("AttributeError")
    ELSE LET response_json == response.json.d
             access_token ==
                 IF Truthy(Get(response_json, "access_token"))
                 THEN Get(response_json, "access_token")
                 ELSE IF Has(response_json, "data") /\ response_json["data"].t = "dict"
                      THEN Get(response_json["data"].d, "access_token")
                      ELSE JNull
         IN  IF ~Truthy(access_token) THEN Raise("ValueError")
             ELSE Return(access_token)

\* AILabOAuth.get_access_token, given the token endpoint's response.
AILabOAuth_get_access_token(response) ==
    IF response.json = NotJson THEN Raise("JSONDecodeError")
    ELSE IF response.json.t # "dict" THEN Raise("AttributeError")
    ELSE LET response_json == response.json.d
             access_token ==
                 IF Has(response_json, "data") /\ response_json["data"].t = "dict"
                 THEN Get(response_json["data"].d, "access_token")
                 ELSE Get(response_json, "access_token")
         IN  IF ~Truthy(access_token) THEN Raise("ValueError")
             ELSE Return(access_token)

\* next((email for email in email_info if email["primary"] == True), {}) on a
\* list: the records are read in order, up to the first one flagged primary.
RECURSIVE NextPrimary(_)
NextPrimary(email_info) ==
    IF email_info = <<>> THEN Return(EmptyDict)
    ELSE LET email == Head(email_info)
         IN  IF email.t # "dict" THEN Raise("TypeError")
             ELSE IF ~Has(email.d, "primary") THEN Raise("KeyError")
             ELSE IF email.d["primary"] = JBool(TRUE) THEN Return(email.d)
             ELSE NextPrimary(Tail(email_info))

\* The same expression on whatever /user/emails answered: iterating a dict
\* yields its keys, strings, and email["primary"] on a string is a TypeError.
PrimaryEmail(email_info) ==
    CASE email_info.t = "list" -> NextPrimary(email_info.l)
      [] email_info.t = "dict" ->
            IF Truthy(email_info) THEN Raise("TypeError") ELSE Return(EmptyDict)
      [] OTHER -> Raise("TypeError")

\* GitHubOAuth.get_raw_user_info, given the responses of /user and /user/emails.
GitHubOAuth_get_raw_user_info(response, email_response) ==
    IF RaisesForStatus(response) THEN Raise("HTTPError")
    ELSE IF response.json = NotJson THEN Raise("JSONDecodeError")
    ELSE IF email_response.json = NotJson THEN Raise("JSONDecodeError")
    ELSE LET user_info == response.json
             primary_email == PrimaryEmail(email_response.json)
         IN  IF ~primary_email.ok THEN primary_email
             ELSE IF user_info.t # "dict" THEN Raise("TypeError")
             ELSE Return(JObj([user_info.d EXCEPT
                                 !["email"] = GetOr(primary_email.value, "email", JStr(""))]))

\* A faulty variant: no address made up for a profile without email.
GitHubTransformNoSynthesis(raw_info) ==
    IF ~Has(raw_info.d, "id") \/ ~Has(raw_info.d, "name") THEN Raise("KeyError")
    ELSE Return([id |-> JStr(PyStr(raw_info.d["id"])), name |-> raw_info.d["name"],
                 email |-> Get(raw_info.d, "email")])

\* GitHubOAuth._transform_user_info
GitHubOAuth_transform_user_info(raw_info) ==
    LET given == Get(raw_info.d, "email")
    IN  IF ~Truthy(given) /\ (~Has(raw_info.d, "id") \/ ~Has(raw_info.d, "login"))
        THEN Raise("KeyError")
        ELSE IF ~Has(raw_info.d, "id") \/ ~Has(raw_info.d, "name") THEN Raise("KeyError")
        ELSE LET email == IF ~Truthy(given)
                          THEN JStr(PyStr(raw_info.d["id"]) \o "+" \o PyStr(raw_info.d["login"])
                                    \o "@users.noreply.github.com")
                          ELSE given
             IN  Return([id |-> JStr(PyStr(raw_info.d["id"])), name |-> raw_info.d["name"],
                         email |-> email])

\* GoogleOAuth.get_raw_user_info
GoogleOAuth_get_raw_user_info(response) ==
    IF RaisesForStatus(response) THEN Raise("HTTPError")
    ELSE IF response.json = NotJson THEN Raise("JSONDecodeError")
    ELSE Return(response.json)

\* GoogleOAuth._transform_user_info
GoogleOAuth_transform_user_info(raw_info) ==
    IF raw_info.t # "dict" THEN Raise("TypeError")
    ELSE IF ~Has(raw_info.d, "sub") \/ ~Has(raw_info.d, "email") THEN Raise("KeyError")
    ELSE Return([id |-> JStr(PyStr(raw_info.d["sub"])), name |-> JStr(""),
                 email |-> raw_info.d["email"]])

\* AILabOAuth.get_raw_user_info
AILabOAuth_get_raw_user_info(response) ==
    IF response.status_code # 200 THEN Raise("ValueError")
    ELSE IF response.json = NotJson THEN Raise("JSONDecodeError")
    ELSE LET response_json == response.json
         IN  IF /\ response_json.t = "dict"
                /\ Has(response_json.d, "data")
                /\ response_json.d["data"].t = "dict"
             THEN Return(response_json.d["data"])
             ELSE Return(response_json)

\* AILabOAuth._transform_user_info
AILabOAuth_transform_user_info(raw_info) ==
    IF raw_info.t # "dict" THEN Raise("AttributeError")
    ELSE LET user_id == JStr(PyStr(GetOr(raw_info.d, "userId", JStr(""))))
             user_name == GetOr(raw_info.d, "username", JStr(""))
             display_name == GetOr(raw_info.d, "displayName", JStr(""))
             name == IF Truthy(display_name) THEN display_name ELSE user_name
             given == GetOr(raw_info.d, "email", JStr(""))
             email == IF ~Truthy(given) THEN JStr(PyStr(user_name) \o "@example.com")
                      ELSE given
         IN  Return([id |-> user_id, name |-> name, email |-> email])

\* OAuth.get_user_info: the raw profile, then its transformation.
GetUserInfo(provider) ==
    LET raw == CASE provider = "github" -> GitHubOAuth_get_raw_user_info(http.user, http.emails)
                 [] provider = "google" -> GoogleOAuth_get_raw_user_info(http.user)
                 [] provider = "ailab" -> AILabOAuth_get_raw_user_info(http.user)
    IN  [raw |-> raw,
         outcome |-> IF ~raw.ok THEN raw
                     ELSE CASE provider = "github" -> GitHubOAuth_transform_user_info(raw.value)
                            [] provider = "google" -> GoogleOAuth_transform_user_info(raw.value)
                            [] provider = "ailab" -> AILabOAuth_transform_user_info(raw.value)]

(***************************************************************************)
(* Actions: one call on an adapter.  The provider's answers are in http.   *)
(***************************************************************************)
Called(provider, method, raw, outcome) ==
    /\ oauth' = [provider |-> provider, method |-> method, raw |-> raw, outcome |-> outcome]
    /\ UNCHANGED <<tables, args, tenant_account, resp, walk, http>>

GitHubGetAccessToken ==
    LET r == GitHubOAuth_get_access_token(http.token)
    IN  Called("github", "get_access_token", r, r)

GoogleGetAccessToken ==
    LET r == GoogleOAuth_get_access_token(http.token)
    IN  Called("google", "get_access_token", r, r)

AILabGetAccessToken ==
    LET r == AILabOAuth_get_access_token(http.token)
    IN  Called("ailab", "get_access_token", r, r)

GitHubGetUserInfo ==
    LET r == GetUserInfo("github") IN Called("github", "get_user_info", r.raw, r.outcome)

GoogleGetUserInfo ==
    LET r == GetUserInfo("google") IN Called("google", "get_user_info", r.raw, r.outcome)

AILabGetUserInfo ==
    LET r == GetUserInfo("ailab") IN Called("ailab", "get_user_info", r.raw, r.outcome)

NextToken == GitHubGetAccessToken \/ GoogleGetAccessToken \/ AILabGetAccessToken
NextProfile == GitHubGetUserInfo \/ GoogleGetUserInfo \/ AILabGetUserInfo

(***************************************************************************)
(* The provider's answers.                                                 *)
(***************************************************************************)
\* The longest /user/emails list.
MaxEmails == 2

Statuses == {200, 201, 401, 503}
Tokens == {JNull, JStr(""), JStr("t1"), JStr("t2")}

\* The bodies of the token endpoint: flat, wrapped, both, neither, not a dict.
TokenJson ==
    {JObj(Dict([access_token |-> a, data |-> d])) :
        a \in Tokens \cup {Absent},
        d \in {Absent, JNull, JStr("x"), JObj(EmptyDict)}
              \cup {JObj(Dict([access_token |-> w])) : w \in Tokens}}
    \cup {NotJson, JList(<<>>)}

GitHubProfiles ==
    {JObj(Dict([id |-> JInt(i), login |-> JStr("octo"), name |-> n, email |-> e])) :
        i \in {1, 42}, n \in {JStr("Octo"), JNull}, e \in {Absent, JStr("pub@x")}}

OtherProfiles ==
    {JObj(Dict([sub |-> JStr("g1"), email |-> JStr("g@x")])),
     JObj(Dict([message |-> JStr("Bad credentials")])),
     NotJson,
     JList(<<>>)}
    \cup {JObj(Dict([userId |-> JInt(7), username |-> JStr("u"), displayName |-> n,
                     email |-> e])) :
             n \in {Absent, JStr("U")}, e \in {Absent, JStr(""), JStr("u@x")}}
    \cup {JObj(Dict([data |-> JObj(Dict([userId |-> JStr("u7"), username |-> JStr("u"),
                                         email |-> e]))])) :
             e \in {Absent, JStr("u@x")}}

EmailRecords ==
    {JObj(Dict([email |-> e, primary |-> p])) :
        e \in {Absent, JStr(""), JStr("m1"), JStr("m2")},
        p \in {Absent, JBool(TRUE), JBool(FALSE)}}

EmailLists == UNION {[1..n -> EmailRecords] : n \in 0..MaxEmails}

EmailsJson ==
    {JList(l) : l \in EmailLists}
    \cup {JObj(EmptyDict), JObj(Dict([message |-> JStr("Bad credentials")])), NotJson}

Response(status_code, json) == [status_code |-> status_code, json |-> json]

NoRequest ==
    /\ Account = {} /\ TenantAccountJoin = {} /\ Dataset = {}
    /\ DatasetPermission = {} /\ App = {} /\ InstalledApp = {}
    /\ args = None /\ tenant_account = None /\ resp = None /\ walk = None
    /\ oauth = None

InitToken ==
    /\ NoRequest
    /\ \E s \in Statuses, j \in TokenJson :
        http = [token |-> Response(s, j),
                user |-> Response(200, JList(<<>>)),
                emails |-> Response(200, JList(<<>>))]

\* Every profile with an empty list of emails, and the GitHub profiles with
\* every answer of /user/emails.
InitProfile ==
    /\ NoRequest
    /\ \/ \E s \in Statuses, j \in GitHubProfiles \cup OtherProfiles :
            http = [token |-> Response(200, JList(<<>>)),
                    user |-> Response(s, j),
                    emails |-> Response(200, JList(<<>>))]
       \/ \E s \in {200, 401}, j \in GitHubProfiles, es \in Statuses, ej \in EmailsJson :
            http = [token |-> Response(200, JList(<<>>)),
                    user |-> Response(s, j),
                    emails |-> Response(es, ej)]

SpecToken == InitToken /\ [][NextToken]_vars
SpecProfile == InitProfile /\ [][NextProfile]_vars

(***************************************************************************)
(* Properties of the two endpoints.                                        *)
(***************************************************************************)
IsPage(r) == "data" \in DOMAIN r

\* The accounts the email of the last call matches (at most one: email is unique).
Matching == {a \in Account : a.email = args.email}

JoinsOf(a) == {j \in TenantAccountJoin : j.account_id = a.id}

Ids(data) == {data[i].id : i \in DOMAIN data}

\* C1: a GET on either endpoint with an email that matches no account, or an
\* account without any TenantAccountJoin row, answers the empty page: data = [],
\* total = 0, has_more = false, page and limit those of the request.
C1_UnknownOrTenantlessIsEmptyPage ==
    (args # None /\ \A a \in Matching : JoinsOf(a) = {})
        => resp = [data |-> <<>>, has_more |-> FALSE, total |-> 0,
                   page |-> args.page, limit |-> args.limit]

\* An account without tenant asked for page 3 with limit 2 of its apps.
C1_Witness ==
    /\ args # None
    /\ args.endpoint = "apps" /\ args.page = 3 /\ args.limit = 2
    /\ Matching # {}
    /\ \A a \in Matching : JoinsOf(a) = {}
    /\ resp = [data |-> <<>>, has_more |-> FALSE, total |-> 0, page |-> 3, limit |-> 2]

\* C2: in both endpoints, when the account has a join row with current = true the
\* tenant of the listing is that of such a row, whatever other rows exist; only
\* when it has none is the tenant of another of its join rows used. The listing
\* counts and returns records of that tenant only.
C2_CurrentTenantPreferred ==
    args # None =>
        \A a \in Matching :
            LET rows == JoinsOf(a)
                current == {j \in rows : j.current}
            IN  rows # {} =>
                    /\ tenant_account \in (IF current # {} THEN current ELSE rows)
                    /\ IsPage(resp) =>
                        LET ofTenant ==
                                IF args.endpoint = "datasets"
                                THEN {d \in Dataset : d.tenant_id = tenant_account.tenant_id}
                                ELSE {p \in App : p.tenant_id = tenant_account.tenant_id}
                        IN  /\ resp.total = Cardinality(ofTenant)
                            /\ Ids(resp.data) \subseteq {r.id : r \in ofTenant}

\* a1 has a non-current row for t1 and a current row for t2: the dataset of t2 is listed.
C2_Witness ==
    /\ args # None /\ args.email = "e1" /\ args.endpoint = "datasets"
    /\ [account_id |-> "a1", tenant_id |-> "t1", current |-> FALSE] \in TenantAccountJoin
    /\ [account_id |-> "a1", tenant_id |-> "t2", current |-> TRUE] \in TenantAccountJoin
    /\ tenant_account # None /\ tenant_account.tenant_id = "t2"
    /\ IsPage(resp) /\ Ids(resp.data) = {"d2"}

\* The datasets the rule of the data model shows to account a in tenant T.
VisibleDatasets(a, T) ==
    {d \in Dataset :
        /\ d.tenant_id = T
        /\ \/ d.created_by = a.id
           \/ d.permission = "all_team_members"
           \/ /\ d.permission = "partial_members"
              /\ \E p \in DatasetPermission :
                    p.dataset_id = d.id /\ p.account_id = a.id /\ p.has_permission}

C3_WitnessDenied ==
    /\ args # None /\ args.endpoint = "datasets" /\ args.email = "e1"
    /\ [id |-> "d1", tenant_id |-> "t1", created_by |-> "a2",
        permission |-> "partial_members", created_at |-> 1] \in Dataset
    /\ [dataset_id |-> "d1", account_id |-> "a1", has_permission |-> FALSE]
           \in DatasetPermission
    /\ args.page = 1 /\ args.limit = 2
    /\ IsPage(resp) /\ "d1" \notin Ids(resp.data)

Installed(T) == {i.app_id : i \in {r \in InstalledApp : r.tenant_id = T}}

\* C4 as stated: every app that has an InstalledApp row for tenant T is counted
\* in total and is returned on the page that covers it (here page 1 with a limit
\* of at least total).
C4_AsStated ==
    (/\ args # None /\ args.endpoint = "apps" /\ tenant_account # None /\ IsPage(resp)
     /\ args.page = 1 /\ args.limit >= 1) =>
        LET installed == {p \in App : p.id \in Installed(tenant_account.tenant_id)}
        IN  /\ resp.total >= Cardinality(installed)
            /\ args.limit >= resp.total => {p.id : p \in installed} \subseteq Ids(resp.data)

\* C4, amended: among the apps that belong to T, those with an InstalledApp row
\* for T, those created by A and the public ones are counted and returned, also an
\* installed app that A did not create and that is not public; no other app is.
C4_AppVisibility ==
    (args # None /\ args.endpoint = "apps" /\ tenant_account # None /\ IsPage(resp)) =>
        \A a \in Matching :
            LET T == tenant_account.tenant_id
                visible == {p \in App : /\ p.tenant_id = T
                                        /\ \/ p.created_by = a.id
                                           \/ p.is_public
                                           \/ p.id \in Installed(T)}
            IN  /\ resp.total = Cardinality(visible)
                /\ Ids(resp.data) \subseteq {p.id : p \in visible}
                /\ (args.page = 1 /\ args.limit >= resp.total)
                       => Ids(resp.data) = {p.id : p \in visible}

\* p2, a private app of a2 in t1, is installed for t1 and listed for a1.
C4_Witness ==
    /\ args # None /\ args.endpoint = "apps" /\ args.email = "e1"
    /\ [tenant_id |-> "t1", app_id |-> "p2"] \in InstalledApp
    /\ IsPage(resp) /\ "p2" \in Ids(resp.data)

\* The visible records of the last call.
VisibleOfCall(a) ==
    IF args.endpoint = "datasets"
    THEN {dataset_fields(d) : d \in DatasetQuery(a, tenant_account.tenant_id)}
    ELSE {app_fields(p) : p \in AppQuery(a, tenant_account.tenant_id)}

\* The response is the page of the request: has_more = (offset + limit < total) and
\* data the records offset .. offset + limit - 1 of the visible set in an order of
\* non-increasing created_at, min(limit, max(0, total - offset)) of them.
PageOfRequest(a) ==
    LET offset == (args.page - 1) * args.limit
        total == Cardinality(VisibleOfCall(a))
        n == Min(args.limit, Max(0, total - offset))
    IN  /\ IsPage(resp)
        /\ resp.total = total
        /\ resp.page = args.page /\ resp.limit = args.limit
        /\ resp.has_more = (offset + args.limit < total)
        /\ Len(resp.data) = n
        /\ \E s \in OrderByCreatedAtDesc(VisibleOfCall(a)) :
               \A i \in 1..n : offset + i \in DOMAIN s /\ resp.data[i] = s[offset + i]
        /\ resp.has_more = (\E s \in OrderByCreatedAtDesc(VisibleOfCall(a)) :
                                \E k \in DOMAIN s : k > offset + args.limit)

\* C5 as stated: for every page and limit.
C5_AsStated ==
    (args # None /\ tenant_account # None) => \A a \in Matching : PageOfRequest(a)

\* C5, amended: for page >= 1 and limit >= 0 (with page < 1 or limit < 0 the
\* query gets a negative OFFSET or LIMIT, and the database rejects it or reads it
\* in its own way).
C5_Pagination ==
    (args # None /\ tenant_account # None /\ args.page >= 1 /\ args.limit >= 0)
        => \A a \in Matching : PageOfRequest(a)

\* total = 3, limit = 2: page 2 holds the one record left and has_more is false.
C5_Witness ==
    /\ args # None /\ args.page = 2 /\ args.limit = 2
    /\ IsPage(resp) /\ resp.total = 3 /\ Len(resp.data) = 1 /\ ~resp.has_more

\* total = 3, limit = 2: page 1 has has_more = true.
C5_WitnessMore ==
    /\ args # None /\ args.page = 1 /\ args.limit = 2
    /\ IsPage(resp) /\ resp.total = 3 /\ Len(resp.data) = 2 /\ resp.has_more

RECURSIVE Flatten(_)
Flatten(pages) == IF pages = <<>> THEN <<>> ELSE Head(pages) \o Flatten(Tail(pages))

WalkDone == walk # None /\ Len(walk.pages) >= Ceil(walk.total, args.limit)

\* C10: on an unchanged database the requests page = 1 .. ceil(total / limit), for
\* one email and one limit >= 1, return every visible record exactly once, in
\* non-increasing created_at order, also when records share a created_at.
C10_EveryRecordOnce ==
    (WalkDone /\ tenant_account # None) =>
        LET all == Flatten(walk.pages)
        IN  /\ \A i, j \in DOMAIN all : i # j => all[i].id # all[j].id
            /\ \A a \in Matching : {all[i] : i \in DOMAIN all} = VisibleOfCall(a)
            /\ \A i, j \in DOMAIN all : i < j => all[i].created_at >= all[j].created_at

\* The part of C10 that holds: the pages taken together are in non-increasing
\* created_at order and hold visible records only.
C10_OrderedPages ==
    (WalkDone /\ tenant_account # None) =>
        LET all == Flatten(walk.pages)
        IN  /\ \A a \in Matching : {all[i] : i \in DOMAIN all} \subseteq VisibleOfCall(a)
            /\ \A i, j \in DOMAIN all : i < j => all[i].created_at >= all[j].created_at

(***************************************************************************)
(* Properties of the OAuth adapters.                                       *)
(***************************************************************************)
\* The access_token of the flat shape and of the wrapped shape, Absent without.
FlatToken(json) == IF json.t = "dict" THEN json.d["access_token"] ELSE Absent
WrappedToken(json) ==
    IF json.t = "dict" /\ json.d["data"].t = "dict"
    THEN json.d["data"].d["access_token"]
    ELSE Absent
Missing(v) == v \in {Absent, JNull, JStr("")}

\* C6: get_access_token of GitHubOAuth, GoogleOAuth and AILabOAuth returns a
\* non-null, non-empty token or raises; a response without access_token (absent,
\* null or empty, flat or inside a wrapped data object) raises.
C6_TokenOrError ==
    oauth # None =>
        /\ oauth.outcome.ok => (oauth.outcome.value.t = "str" /\ oauth.outcome.value.s # "")
        /\ (/\ Missing(FlatToken(http.token.json))
            /\ (oauth.provider = "ailab" => Missing(WrappedToken(http.token.json))))
               => ~oauth.outcome.ok

\* Google's token endpoint answers {"access_token": null, ...}: ValueError.
C6_Witness ==
    /\ oauth # None /\ oauth.provider = "google"
    /\ FlatToken(http.token.json) = JNull
    /\ oauth.outcome = Raise("ValueError")

\* C7 as stated: AILabOAuth.get_access_token yields the token of any response that
\* carries a non-empty access_token, wrapped or flat.
C7_AsStated ==
    (oauth # None /\ oauth.provider = "ailab") =>
        LET flat == FlatToken(http.token.json)
            wrapped == WrappedToken(http.token.json)
        IN  (~Missing(flat) \/ ~Missing(wrapped)) =>
                /\ oauth.outcome.ok
                /\ oauth.outcome.value \in {v \in {flat, wrapped} : ~Missing(v)}

\* C7, amended: the shape is chosen by data alone. When data is a JSON object the
\* token is data.access_token, and the call raises when that is missing, also if
\* a flat access_token is there; otherwise the token is the flat access_token.
\* So {code, msg, data: {access_token: t}} and {access_token: t} both yield t.
C7_WrappedElseFlat ==
    (oauth # None /\ oauth.provider = "ailab" /\ http.token.json.t = "dict") =>
        LET flat == FlatToken(http.token.json)
            wrapped == WrappedToken(http.token.json)
            chosen == IF http.token.json.d["data"].t = "dict" THEN wrapped ELSE flat
        IN  oauth.outcome = IF Missing(chosen) THEN Raise("ValueError") ELSE Return(chosen)

\* The wrapped response {data: {access_token: "t1"}} yields "t1".
C7_Witness ==
    /\ oauth # None /\ oauth.provider = "ailab"
    /\ FlatToken(http.token.json) = Absent
    /\ WrappedToken(http.token.json) = JStr("t1")
    /\ oauth.outcome = Return(JStr("t1"))

\* The flat response {access_token: "t1"} yields "t1" too.
C7_WitnessFlat ==
    /\ oauth # None /\ oauth.provider = "ailab"
    /\ FlatToken(http.token.json) = JStr("t1")
    /\ http.token.json.d["data"] = Absent
    /\ oauth.outcome = Return(JStr("t1"))

\* The status of a profile request is a failure: 4xx and 5xx, and for AILabOAuth
\* every status but 200.
Failed(provider, response) ==
    IF provider = "ailab" THEN response.status_code # 200
    ELSE response.status_code >= 400

\* C8: get_raw_user_info, and so get_user_info, raises when a profile request it
\* issues answers with a failure status: /user and /user/emails for GitHubOAuth.
C8_FailureStatusRaises ==
    (/\ oauth # None
     /\ \/ Failed(oauth.provider, http.user)
        \/ (oauth.provider = "github" /\ Failed(oauth.provider, http.emails)))
        => (~oauth.raw.ok /\ ~oauth.outcome.ok)

\* The part of C8 that holds: a failure status of the first request raises.
C8_FirstRequestChecked ==
    (oauth # None /\ Failed(oauth.provider, http.user))
        => (~oauth.raw.ok /\ ~oauth.outcome.ok)

\* The call is GitHubOAuth.get_user_info with a complete /user profile and a
\* /user/emails body that is a list.
GitHubEmailsCall ==
    /\ oauth # None /\ oauth.provider = "github"
    /\ http.user.status_code < 400
    /\ http.user.json \in GitHubProfiles
    /\ http.emails.json.t = "list"

Flagged(l) == {i \in DOMAIN l : l[i].d["primary"] = JBool(TRUE)}
Lowest(S) == CHOOSE i \in S : \A j \in S : i <= j

NoReply(profile) ==
    JStr(ToString(profile["id"].n) \o "+" \o profile["login"].s \o "@users.noreply.github.com")

\* C9 as stated: for every list of /user/emails the email of the record flagged
\* primary is used; without such a record, also when records lack the flag, the
\* raw email is "" and the normalized email {id}+{login}@users.noreply.github.com.
C9_AsStated ==
    GitHubEmailsCall =>
        LET l == http.emails.json.l
            profile == http.user.json.d
        IN  /\ oauth.raw.ok /\ oauth.outcome.ok
            /\ oauth.outcome.value.id = JStr(ToString(profile["id"].n))
            /\ IF Flagged(l) # {}
               THEN oauth.raw.value.d["email"] = GetOr(l[Lowest(Flagged(l))].d, "email", JStr(""))
               ELSE /\ oauth.raw.value.d["email"] = JStr("")
                    /\ oauth.outcome.value.email = NoReply(profile)

\* C9, amended: the records are read in order up to the first one flagged
\* primary, and a record read without the primary key raises KeyError. Otherwise
\* the raw email is that of the first record flagged primary ("" when it has no
\* email), or "" when no record is flagged; the normalized email is the raw one
\* when it is not empty and {id}+{login}@users.noreply.github.com when it is,
\* with id = str(id).
C9_PrimaryEmailOrNoReply ==
    GitHubEmailsCall =>
        LET l == http.emails.json.l
            profile == http.user.json.d
            stop == IF Flagged(l) # {} THEN Lowest(Flagged(l)) ELSE Len(l) + 1
            raw_email == IF Flagged(l) # {} THEN GetOr(l[stop].d, "email", JStr(""))
                         ELSE JStr("")
        IN  IF \E i \in DOMAIN l : i < stop /\ ~Has(l[i].d, "primary")
            THEN oauth.raw = Raise("KeyError") /\ oauth.outcome = Raise("KeyError")
            ELSE /\ oauth.raw.ok /\ oauth.outcome.ok
                 /\ oauth.raw.value.d["email"] = raw_email
                 /\ oauth.outcome.value.id = JStr(ToString(profile["id"].n))
                 /\ oauth.outcome.value.name = profile["name"]
                 /\ oauth.outcome.value.email =
                        IF raw_email = JStr("") THEN NoReply(profile) ELSE raw_email

\* Profile 42/octo, one email record with primary = false: no primary email, and
\* the address is made up.
C9_Witness ==
    /\ GitHubEmailsCall
    /\ http.emails.json.l = <<JObj(Dict([email |-> JStr("m1"), primary |-> JBool(FALSE)]))>>
    /\ oauth.raw.ok /\ oauth.raw.value.d["email"] = JStr("")
    /\ oauth.outcome.ok
    /\ oauth.outcome.value.email = JStr("42+octo@users.noreply.github.com")
    /\ oauth.outcome.value.id = JStr("42")

\* The second of two records is flagged primary: its email is used.
C9_WitnessPrimary ==
    /\ GitHubEmailsCall
    /\ http.emails.json.l = <<JObj(Dict([email |-> JStr("m1"), primary |-> JBool(FALSE)])),
                              JObj(Dict([email |-> JStr("m2"), primary |-> JBool(TRUE)]))>>
    /\ oauth.outcome.ok /\ oauth.outcome.value.email = JStr("m2")
====
